---------------------------- MODULE Spec2Model ----------------------------
(***************************************************************************)
(* A model of the DailyBot CLI: the credential resolver                    *)
(* (dailybot_cli/config.py), the HTTP client (dailybot_cli/api_client.py)  *)
(* and the login / logout commands (dailybot_cli/commands/auth.py).        *)
(*                                                                         *)
(* Python strings are sequences of one-character strings, so that          *)
(* rstrip("/"), f"Bearer {token}" and f"HTTP {code}" are computed and not  *)
(* assumed.  A Python dict is a total function over the keys the program   *)
(* uses, with ABSENT standing for "key not in dict".                       *)
(***************************************************************************)
EXTENDS Integers, Sequences, FiniteSets, TLC

VARIABLES
    env,                \* os.environ: the three DAILYBOT_* variables
    api_url_override,   \* config._api_url_override
    credentials_file,   \* ~/.config/dailybot/credentials.json
    config_file,        \* ~/.config/dailybot/config.json
    client,             \* a DailyBotClient instance (or NoClient)
    sent,               \* the HTTP requests sent by the running operation
    ret,                \* how the last operation ended
    cmd                 \* the running command's locals (login flow)

resolverVars == <<env, api_url_override, credentials_file, config_file>>
vars == <<env, api_url_override, credentials_file, config_file, client, sent, ret, cmd>>

---------------------------------------------------------------------------
(* Bounds *)

\* the longest run of trailing slashes on a URL given to the program
MaxSlashes == 1

\* the most organizations a verify-code response lists
MaxOrgs == 2

---------------------------------------------------------------------------
(* Python values *)

\* None; a sequence, so that it compares with strings
None == <<"None">>
\* dict.get's "no such key"
ABSENT == <<"<absent>">>
\* the uncaught exception of calling .get on a JSON value that is no dict
AttributeError == <<"AttributeError">>
EMPTY == <<>>

\* JSON true and false
JSON_TRUE == <<"True">>
JSON_FALSE == <<"False">>

\* bool(v) for a str, a JSON boolean or None
Truthy(v) == v # None /\ v # EMPTY /\ v # ABSENT /\ v # JSON_FALSE

\* d.get(k)
Get(d, k) == IF d[k] = ABSENT THEN None ELSE d[k]

RECURSIVE rstrip(_)
\* str.rstrip("/")
rstrip(s) ==
    IF s = EMPTY THEN s
    ELSE IF s[Len(s)] = "/" THEN rstrip(SubSeq(s, 1, Len(s) - 1))
    ELSE s

RECURSIVE Slashes(_)
Slashes(n) == IF n = 0 THEN <<>> ELSE <<"/">> \o Slashes(n - 1)

EndsWithSlash(s) == s # None /\ Len(s) > 0 /\ s[Len(s)] = "/"

---------------------------------------------------------------------------
(* config.py: constants and files *)

DEFAULT_API_URL ==
    <<"h", "t", "t", "p", "s", ":", "/", "/", "a", "p", "i", ".",
      "d", "a", "i", "l", "y", "b", "o", "t", ".", "c", "o", "m">>

CredKeys == {"token", "email", "organization", "organization_uuid", "api_url"}
ConfigKeys == {"api_key", "other"}

EmptyCreds == [k \in CredKeys |-> ABSENT]
EmptyConfig == [k \in ConfigKeys |-> ABSENT]

\* A file is missing, holds text that is not JSON ("malformed", which the
\* empty file is too), holds JSON that is no object ("nonmap": a list, a
\* string, a number, null) or holds a JSON object ("map").
\* file modes: none for a file that does not exist, the mode a file gets
\* when it is created under the usual umask, owner-only, and world-writable
NO_MODE == <<"no file">>
UMASK_MODE == <<"0644">>
OWNER_RW == <<"0600">>
WORLD_RW == <<"0666">>

\* a file as an editor or the shell leaves it
File(kind, data) ==
    [kind |-> kind, data |-> data,
     mode |-> IF kind = "missing" THEN NO_MODE ELSE UMASK_MODE]

\* os.chmod(path, 0o600)
chmod_0600(file) == [file EXCEPT !.mode = OWNER_RW]

\* Path.write_text: a new file gets the umask's mode, an existing file keeps
\* its mode
write_text(file, data) ==
    [kind |-> "map", data |-> data,
     mode |-> IF file.kind = "missing" THEN UMASK_MODE ELSE file.mode]

MissingCreds == File("missing", EmptyCreds)
MissingConfig == File("missing", EmptyConfig)

\* URLs: a host part, then 0..MaxSlashes trailing slashes
UrlsOf(hosts) == {h \o Slashes(n) : h \in hosts, n \in 0..MaxSlashes}

ENV_TOKEN == <<"e", "t">>
ENV_KEY == <<"e", "k">>
CRED_TOKEN == <<"c", "t">>
STORED_KEY == <<"s", "k">>
OTHER_VALUE == <<"o", "v">>

\* what the environment may hold for each variable (None: unset)
EnvValues(name) ==
    CASE name = "DAILYBOT_API_URL" -> {None} \cup UrlsOf({EMPTY, <<"e">>})
      [] name = "DAILYBOT_CLI_TOKEN" -> {None, EMPTY, ENV_TOKEN}
      [] name = "DAILYBOT_API_KEY" -> {None, EMPTY, ENV_KEY}

EnvNames == {"DAILYBOT_API_URL", "DAILYBOT_CLI_TOKEN", "DAILYBOT_API_KEY"}

\* the values handed to set_api_url_override
OverrideInputs == UrlsOf({EMPTY, <<"o">>})

\* what a user, an editor or a crash may leave in credentials.json
CredContents ==
    {File(k, EmptyCreds) : k \in {"missing", "malformed", "nonmap"}}
    \cup {File("map", [EmptyCreds EXCEPT !["token"] = t, !["api_url"] = u]) :
            t \in {ABSENT, EMPTY, CRED_TOKEN},
            u \in {ABSENT, EMPTY} \cup UrlsOf({<<"c">>})}

\* what a user, an editor or a crash may leave in config.json
ConfigContents ==
    {File(k, EmptyConfig) : k \in {"missing", "malformed", "nonmap"}}
    \cup {File("map", [EmptyConfig EXCEPT !["api_key"] = a]) :
            a \in {ABSENT, EMPTY, STORED_KEY}}
    \cup {File("map", [EmptyConfig EXCEPT !["api_key"] = STORED_KEY,
                                        !["other"] = OTHER_VALUE])}

---------------------------------------------------------------------------
(* config.py: the resolver *)

\* the auth modes, as get_agent_auth returns and _agent_headers records them
API_KEY_MODE == <<"api_key">>
BEARER_MODE == <<"bearer">>

\* the result of a function that returns a dict or None, or raises, or
\* returns parsed JSON that is no dict
NoDict == [tag |-> "None"]
Raises == [tag |-> "AttributeError"]
Dict(d) == [tag |-> "dict", data |-> d]
NonDict == [tag |-> "nonmap"]

load_credentials ==
    IF credentials_file.kind = "missing" THEN NoDict
    ELSE IF credentials_file.kind = "malformed" THEN NoDict
    ELSE IF credentials_file.kind = "nonmap" THEN Raises
    ELSE IF Truthy(Get(credentials_file.data, "token"))
         THEN Dict(credentials_file.data)
         ELSE NoDict

load_config ==
    IF config_file.kind = "missing" THEN Dict(EmptyConfig)
    ELSE IF config_file.kind = "malformed" THEN Dict(EmptyConfig)
    ELSE IF config_file.kind = "nonmap" THEN NonDict
    ELSE Dict(config_file.data)

\* get_api_url with the environment consulted before the runtime override
get_api_url_env_first ==
    IF Truthy(env["DAILYBOT_API_URL"]) THEN rstrip(env["DAILYBOT_API_URL"])
    ELSE IF Truthy(api_url_override) THEN api_url_override
    ELSE LET creds == load_credentials IN
         IF creds.tag = "AttributeError" THEN AttributeError
         ELSE IF creds.tag = "dict" /\ Truthy(Get(creds.data, "api_url"))
              THEN rstrip(creds.data["api_url"])
              ELSE DEFAULT_API_URL

get_api_url ==
    IF Truthy(api_url_override) THEN api_url_override
    ELSE IF Truthy(env["DAILYBOT_API_URL"]) THEN rstrip(env["DAILYBOT_API_URL"])
    ELSE LET creds == load_credentials IN
         IF creds.tag = "AttributeError" THEN AttributeError
         ELSE IF creds.tag = "dict" /\ Truthy(Get(creds.data, "api_url"))
              THEN rstrip(creds.data["api_url"])
              ELSE DEFAULT_API_URL

get_token ==
    IF Truthy(env["DAILYBOT_CLI_TOKEN"]) THEN env["DAILYBOT_CLI_TOKEN"]
    ELSE LET creds == load_credentials IN
         IF creds.tag = "AttributeError" THEN AttributeError
         ELSE IF creds.tag = "dict" THEN Get(creds.data, "token")
         ELSE None

\* get_api_key with the stored settings consulted before the environment
get_api_key_settings_first ==
    LET config == load_config IN
    IF config.tag = "dict" /\ Truthy(Get(config.data, "api_key"))
    THEN config.data["api_key"]
    ELSE IF Truthy(env["DAILYBOT_API_KEY"]) THEN env["DAILYBOT_API_KEY"]
    ELSE IF config.tag = "nonmap" THEN AttributeError
    ELSE None

get_api_key ==
    IF Truthy(env["DAILYBOT_API_KEY"]) THEN env["DAILYBOT_API_KEY"]
    ELSE LET config == load_config IN
         IF config.tag = "nonmap" THEN AttributeError
         ELSE IF Truthy(Get(config.data, "api_key"))
              THEN config.data["api_key"]
              ELSE None

get_agent_auth ==
    IF get_api_key = AttributeError THEN AttributeError
    ELSE IF Truthy(get_api_key) THEN API_KEY_MODE
    ELSE IF get_token = AttributeError THEN AttributeError
    ELSE IF Truthy(get_token) THEN BEARER_MODE
    ELSE None

\* the data handed to save_config: for each key, ABSENT when data does not
\* name it, else the value given (None, "" or a string)
SaveInputs ==
    [ConfigKeys -> {ABSENT, None, EMPTY, STORED_KEY}]

\* config.save_credentials
save_credentials(token, email, organization, organization_uuid, api_url) ==
    chmod_0600(write_text(credentials_file,
        [k \in CredKeys |->
             CASE k = "token" -> token
               [] k = "email" -> email
               [] k = "organization" -> organization
               [] k = "organization_uuid" -> organization_uuid
               [] k = "api_url" -> api_url]))

\* config.clear_credentials
clear_credentials == MissingCreds

\* a write that leaves the mode as write_text made it: the mutant of save_config
save_config_without_chmod(data) ==
    LET existing == load_config IN
    IF existing.tag = "nonmap"
    THEN [raises |-> \E k \in ConfigKeys : data[k] # ABSENT, file |-> config_file]
    ELSE [raises |-> FALSE,
          file |-> write_text(config_file,
                       [k \in ConfigKeys |->
                            IF data[k] = ABSENT THEN existing.data[k]
                            ELSE IF data[k] = None THEN ABSENT
                            ELSE data[k]])]

\* save_config: the loaded settings with every key of data popped (value
\* None) or assigned (any other value), written back.  Loaded JSON that is no
\* dict has neither pop(key, default) nor item assignment by key: the first
\* key of data raises (TypeError or AttributeError) before anything is written.
save_config(data) ==
    LET existing == load_config IN
    IF existing.tag = "nonmap"
    THEN IF \A k \in ConfigKeys : data[k] = ABSENT
         THEN [raises |-> FALSE, file |-> chmod_0600(config_file)]
         ELSE [raises |-> TRUE, file |-> config_file]
    ELSE [raises |-> FALSE,
          file |-> chmod_0600(write_text(config_file,
                       [k \in ConfigKeys |->
                            IF data[k] = ABSENT THEN existing.data[k]
                            ELSE IF data[k] = None THEN ABSENT
                            ELSE data[k]]))]

---------------------------------------------------------------------------
(* api_client.py: DailyBotClient *)

DEFAULT_TIMEOUT == 30
UPDATE_TIMEOUT == 120

APPLICATION_JSON == <<"application/json">>
BEARER == <<"B", "e", "a", "r", "e", "r", " ">>
HTTP == <<"H", "T", "T", "P", " ">>
SESSION_EXPIRED ==
    <<"S", "e", "s", "s", "i", "o", "n", " ", "e", "x", "p", "i", "r", "e", "d",
      ".", " ", "R", "u", "n", " ", "'", "d", "a", "i", "l", "y", "b", "o", "t",
      " ", "l", "o", "g", "i", "n", "'", " ", "t", "o", " ", "r", "e", "-", "a",
      "u", "t", "h", "e", "n", "t", "i", "c", "a", "t", "e", ".">>

Digit(d) == <<"0", "1", "2", "3", "4", "5", "6", "7", "8", "9">>[d + 1]

RECURSIVE IntToStr(_)
\* str(n) for n >= 0
IntToStr(n) == IF n < 10 THEN <<Digit(n)>> ELSE IntToStr(n \div 10) \o <<Digit(n % 10)>>

NoClient ==
    [made |-> FALSE, api_url |-> None, token |-> None, api_key |-> None,
     timeout |-> 0, agent_auth_mode |-> None]

\* x or y
Or(x, y) == IF Truthy(x) THEN x ELSE y

\* DailyBotClient.__init__ raises when a resolver call it makes raises; it
\* calls get_api_url(), get_token() and get_api_key() only for the arguments
\* that are falsy.
NewClientRaises(api_url, token, api_key) ==
    AttributeError \in
        {Or(api_url, get_api_url), Or(token, get_token), Or(api_key, get_api_key)}

\* DailyBotClient.__init__: the instance DailyBotClient(api_url, token, api_key)
NewClient(api_url, token, api_key) ==
    [made |-> TRUE,
     api_url |-> rstrip(Or(api_url, get_api_url)),
     token |-> Or(token, get_token),
     api_key |-> Or(api_key, get_api_key),
     timeout |-> DEFAULT_TIMEOUT,
     agent_auth_mode |-> None]

HeaderKeys == {"Content-Type", "Accept", "Authorization", "X-API-KEY"}

BaseHeaders ==
    [k \in HeaderKeys |->
        IF k \in {"Content-Type", "Accept"} THEN APPLICATION_JSON ELSE ABSENT]

\* _headers ignoring its argument: the bearer header on every request
headers_always_authenticated(c, authenticated) ==
    IF Truthy(c.token)
    THEN [BaseHeaders EXCEPT !["Authorization"] = BEARER \o c.token]
    ELSE BaseHeaders

\* _headers reading the token from the resolver at the time of the call
headers_resolved_at_call(c, authenticated) ==
    IF authenticated /\ Truthy(get_token)
    THEN [BaseHeaders EXCEPT !["Authorization"] = BEARER \o get_token]
    ELSE BaseHeaders

\* DailyBotClient._headers
headers(c, authenticated) ==
    IF authenticated /\ Truthy(c.token)
    THEN [BaseHeaders EXCEPT !["Authorization"] = BEARER \o c.token]
    ELSE BaseHeaders

\* _agent_headers with the session token tried before the API key
agent_headers_bearer_first(c) ==
    IF Truthy(c.token)
    THEN [headers |-> [BaseHeaders EXCEPT !["Authorization"] = BEARER \o c.token],
          mode |-> BEARER_MODE]
    ELSE IF Truthy(c.api_key)
    THEN [headers |-> [BaseHeaders EXCEPT !["X-API-KEY"] = c.api_key],
          mode |-> API_KEY_MODE]
    ELSE [headers |-> BaseHeaders, mode |-> None]

\* DailyBotClient._agent_headers: the headers and the mode it records
agent_headers(c) ==
    IF Truthy(c.api_key)
    THEN [headers |-> [BaseHeaders EXCEPT !["X-API-KEY"] = c.api_key],
          mode |-> API_KEY_MODE]
    ELSE IF Truthy(c.token)
    THEN [headers |-> [BaseHeaders EXCEPT !["Authorization"] = BEARER \o c.token],
          mode |-> BEARER_MODE]
    ELSE [headers |-> BaseHeaders, mode |-> None]

\* A response body: a JSON object ("map") with or without detail and error,
\* JSON that is no object ("other"), or text that is not JSON
\* ("unparseable", the empty body too).
\* "organization" absent from a body: result.get("organization", "")
NoOrg == [is_dict |-> FALSE, id |-> None, name |-> EMPTY, uuid |-> EMPTY, text |-> EMPTY]

Body(kind, detail, error, text) ==
    [kind |-> kind, detail |-> detail, error |-> error, text |-> text,
     organization_selection_required |-> ABSENT, organizations |-> <<>>,
     token |-> ABSENT, organization |-> NoOrg, organization_uuid |-> ABSENT]

\* the {} that _handle_response returns for a 204
EmptyDict == Body("map", ABSENT, ABSENT, EMPTY)

\* str(body) of a parsed JSON object
py_str(body) ==
    IF body.detail = ABSENT /\ body.error = ABSENT THEN <<"{", "}">>
    ELSE <<"str(body)">>

\* the derived detail with the error field consulted before the detail field
server_detail_error_first(r) ==
    IF r.body.kind = "map"
    THEN IF r.body.error # ABSENT THEN r.body.error
         ELSE IF r.body.detail # ABSENT THEN r.body.detail
         ELSE py_str(r.body)
    ELSE IF Truthy(r.body.text) THEN r.body.text
         ELSE HTTP \o IntToStr(r.status_code)

\* the derived detail without the generic "HTTP <code>" fallback
server_detail_text_only(r) ==
    IF r.body.kind = "map"
    THEN IF r.body.detail # ABSENT THEN r.body.detail
         ELSE IF r.body.error # ABSENT THEN r.body.error
         ELSE py_str(r.body)
    ELSE r.body.text

\* the detail _handle_response derives from the server's response
server_detail(r) ==
    IF r.body.kind = "map"
    THEN IF r.body.detail # ABSENT THEN r.body.detail
         ELSE IF r.body.error # ABSENT THEN r.body.error
         ELSE py_str(r.body)
    ELSE IF Truthy(r.body.text) THEN r.body.text
         ELSE HTTP \o IntToStr(r.status_code)

Outcome(outcome, value, status_code, detail) ==
    [outcome |-> outcome, value |-> value, status_code |-> status_code,
     detail |-> detail]

\* _handle_response without the re-login override
handle_response_server_detail_only(mode, r) ==
    IF r.status_code >= 400
    THEN Outcome("APIError", EmptyDict, r.status_code, server_detail(r))
    ELSE IF r.status_code = 204 THEN Outcome("return", EmptyDict, r.status_code, None)
    ELSE IF r.body.kind = "unparseable"
         THEN Outcome("JSONDecodeError", EmptyDict, r.status_code, None)
         ELSE Outcome("return", r.body, r.status_code, None)

\* _handle_response with the re-login override applied in every auth mode
handle_response_override_any_mode(mode, r) ==
    IF r.status_code >= 400
    THEN Outcome("APIError", EmptyDict, r.status_code,
                 IF r.status_code \in {401, 403}
                 THEN SESSION_EXPIRED
                 ELSE server_detail(r))
    ELSE IF r.status_code = 204 THEN Outcome("return", EmptyDict, r.status_code, None)
    ELSE IF r.body.kind = "unparseable"
         THEN Outcome("JSONDecodeError", EmptyDict, r.status_code, None)
         ELSE Outcome("return", r.body, r.status_code, None)

\* _handle_response raising only from status 500 on
handle_response_client_errors_returned(mode, r) ==
    IF r.status_code >= 500
    THEN Outcome("APIError", EmptyDict, r.status_code, server_detail(r))
    ELSE IF r.status_code = 204 THEN Outcome("return", EmptyDict, r.status_code, None)
    ELSE IF r.body.kind = "unparseable"
         THEN Outcome("JSONDecodeError", EmptyDict, r.status_code, None)
         ELSE Outcome("return", r.body, r.status_code, None)

\* DailyBotClient._handle_response, with the instance's recorded auth mode
handle_response(mode, r) ==
    IF r.status_code >= 400
    THEN Outcome("APIError", EmptyDict, r.status_code,
                 IF r.status_code \in {401, 403} /\ mode = BEARER_MODE
                 THEN SESSION_EXPIRED
                 ELSE server_detail(r))
    ELSE IF r.status_code = 204 THEN Outcome("return", EmptyDict, r.status_code, None)
    ELSE IF r.body.kind = "unparseable"
         THEN Outcome("JSONDecodeError", EmptyDict, r.status_code, None)
         ELSE Outcome("return", r.body, r.status_code, None)

---------------------------------------------------------------------------
(* Observations *)

NoRet == [op |-> "none", outcome |-> "none", value |-> None]
NoCmd ==
    [pc |-> "idle", client |-> NoClient, email |-> None, code |-> None,
     before |-> MissingCreds, first |-> EmptyDict, second |-> EmptyDict,
     result |-> EmptyDict,
     prompted |-> FALSE, choice |-> 0, saved |-> FALSE]

\* a resolver call that returned (or raised) and its value
Returned(op, v) ==
    [op |-> op,
     outcome |-> IF v = AttributeError THEN "raise" ELSE "return",
     value |-> v]

---------------------------------------------------------------------------
(* The resolver used as a library: the process environment and the files   *)
(* change between calls                                                    *)

SetEnv ==
    \E name \in EnvNames : \E v \in EnvValues(name) :
        /\ env' = [env EXCEPT ![name] = v]
        /\ ret' = NoRet
        /\ UNCHANGED <<api_url_override, credentials_file, config_file, client, sent, cmd>>

EditCredentialsFile ==
    \E c \in CredContents :
        /\ credentials_file' = c
        /\ ret' = NoRet
        /\ UNCHANGED <<env, api_url_override, config_file, client, sent, cmd>>

EditConfigFile ==
    \E c \in ConfigContents :
        /\ config_file' = c
        /\ ret' = NoRet
        /\ UNCHANGED <<env, api_url_override, credentials_file, client, sent, cmd>>

set_api_url_override ==
    \E url \in OverrideInputs :
        /\ api_url_override' = rstrip(url)
        /\ ret' = [op |-> "set_api_url_override", outcome |-> "return",
                   value |-> url]
        /\ sent' = <<>>
        /\ UNCHANGED <<env, credentials_file, config_file, client, cmd>>

Call_get_api_url ==
    /\ ret' = Returned("get_api_url", get_api_url)
    /\ UNCHANGED <<resolverVars, client, sent, cmd>>

Call_get_token ==
    /\ ret' = Returned("get_token", get_token)
    /\ UNCHANGED <<resolverVars, client, sent, cmd>>

Call_get_api_key ==
    /\ ret' = Returned("get_api_key", get_api_key)
    /\ UNCHANGED <<resolverVars, client, sent, cmd>>

Call_get_agent_auth ==
    /\ ret' = Returned("get_agent_auth", get_agent_auth)
    /\ UNCHANGED <<resolverVars, client, sent, cmd>>

Call_load_credentials ==
    /\ ret' = [op |-> "load_credentials",
               outcome |-> IF load_credentials = Raises THEN "raise" ELSE "return",
               value |-> load_credentials]
    /\ UNCHANGED <<resolverVars, client, sent, cmd>>

Call_save_config ==
    \E data \in SaveInputs :
        LET saved == save_config(data) IN
        /\ config_file' = saved.file
        /\ ret' = [op |-> "save_config",
                   outcome |-> IF saved.raises THEN "raise" ELSE "return",
                   value |-> data, before |-> config_file]
        /\ UNCHANGED <<env, api_url_override, credentials_file, client, sent, cmd>>

\* what a caller passes to save_credentials
SavedTokens == {CRED_TOKEN, EMPTY}
SavedUrls == {DEFAULT_API_URL, <<"c", "/">>}

Call_save_credentials ==
    \E token \in SavedTokens : \E api_url \in SavedUrls :
        /\ credentials_file' = save_credentials(token, None, None, None, api_url)
        /\ ret' = [op |-> "save_credentials", outcome |-> "return",
                   value |-> token]
        /\ sent' = <<>>
        /\ UNCHANGED <<env, api_url_override, config_file, client, cmd>>

Call_clear_credentials ==
    /\ credentials_file' = clear_credentials
    /\ ret' = [op |-> "clear_credentials", outcome |-> "return",
               value |-> None]
    /\ sent' = <<>>
    /\ UNCHANGED <<env, api_url_override, config_file, client, cmd>>

\* the owner changes the mode of a file that exists
FileModes == {UMASK_MODE, OWNER_RW, WORLD_RW}

ChmodCredentialsFile ==
    \E m \in FileModes :
        /\ credentials_file.kind # "missing"
        /\ credentials_file' = [credentials_file EXCEPT !.mode = m]
        /\ ret' = NoRet
        /\ UNCHANGED <<env, api_url_override, config_file, client, sent, cmd>>

ChmodConfigFile ==
    \E m \in FileModes :
        /\ config_file.kind # "missing"
        /\ config_file' = [config_file EXCEPT !.mode = m]
        /\ ret' = NoRet
        /\ UNCHANGED <<env, api_url_override, credentials_file, client, sent, cmd>>

InitEnv == [n \in EnvNames |-> None]

InitResolver ==
    /\ env = InitEnv
    /\ api_url_override = None
    /\ credentials_file = MissingCreds
    /\ config_file = MissingConfig
    /\ client = NoClient
    /\ sent = <<>>
    /\ ret = NoRet
    /\ cmd = NoCmd

NextResolver ==
    \/ SetEnv
    \/ EditCredentialsFile
    \/ EditConfigFile
    \/ set_api_url_override
    \/ Call_get_api_url
    \/ Call_get_token
    \/ Call_get_api_key
    \/ Call_get_agent_auth
    \/ Call_load_credentials

SpecResolver == InitResolver /\ [][NextResolver]_vars

\* the stored files on their own: written by save_config and
\* save_credentials, edited and chmod-ed by hand, read by get_api_key
NextSettings ==
    \/ EditConfigFile
    \/ ChmodConfigFile
    \/ ChmodCredentialsFile
    \/ Call_save_config
    \/ Call_save_credentials
    \/ Call_clear_credentials
    \/ Call_get_api_key

SpecSettings == InitResolver /\ [][NextSettings]_vars

---------------------------------------------------------------------------
(* The client used as a library: one instance, any sequence of operations, *)
(* any answer of the server or of the transport                            *)

ARG_TOKEN == <<"t", "o", "k">>
ARG_KEY == <<"k", "e", "y", "1", "2", "3">>
SERVER_DETAIL == <<"s", "d">>
SERVER_ERROR == <<"s", "e">>
RAW_TEXT == <<"r", "t">>

SuccessStatuses == {200, 204}
ErrorStatuses == {400, 401, 403, 500}

\* error bodies: every shape _handle_response tells apart
ErrorBodies ==
    {Body("map", d, e, <<"json">>) : d \in {ABSENT, SERVER_DETAIL}, e \in {ABSENT, SERVER_ERROR}}
    \cup {Body("other", ABSENT, ABSENT, <<"json">>)}
    \cup {Body("unparseable", ABSENT, ABSENT, t) : t \in {EMPTY, RAW_TEXT}}

\* success bodies: a JSON object, other JSON, or no JSON (the empty body)
SuccessBodies ==
    {Body("map", ABSENT, ABSENT, <<"json">>),
     Body("other", ABSENT, ABSENT, <<"json">>),
     Body("unparseable", ABSENT, ABSENT, EMPTY)}

Responses ==
    [status_code : SuccessStatuses, body : SuccessBodies]
    \cup [status_code : ErrorStatuses, body : ErrorBodies]

\* what a call to httpx ends in: a response, or an exception of the transport
NetOutcomes ==
    {[kind |-> "response", response |-> r] : r \in Responses}
    \cup {[kind |-> k, response |-> None] : k \in {"TimeoutException", "ConnectError"}}

UnauthEndpoints == {"request_code", "verify_code"}
SessionEndpoints == {"auth_status", "logout", "submit_update", "get_status"}
AgentEndpoints ==
    {"submit_agent_report", "submit_agent_health", "get_agent_health",
     "register_agent_webhook", "unregister_agent_webhook", "send_agent_message",
     "get_agent_messages"}

Request(base_url, endpoint, hdrs, timeout, payload) ==
    [base_url |-> base_url, endpoint |-> endpoint, headers |-> hdrs, timeout |-> timeout, payload |-> payload]

\* a client operation that wraps the transport's exception in an APIError
ClientRet_transport_as_api_error(op, mode, net) ==
    IF net.kind = "response"
    THEN LET o == handle_response(mode, net.response) IN
         [op |-> op, outcome |-> o.outcome, value |-> o.value,
          status_code |-> o.status_code, detail |-> o.detail,
          response |-> net.response, net |-> net.kind]
    ELSE [op |-> op, outcome |-> "APIError", value |-> EmptyDict, status_code |-> 0,
          detail |-> None, response |-> None, net |-> net.kind]

\* how a client operation ended: the outcome of classifying the response, or
\* the transport's exception, which no client method catches
ClientRet(op, mode, net) ==
    IF net.kind = "response"
    THEN LET o == handle_response(mode, net.response) IN
         [op |-> op, outcome |-> o.outcome, value |-> o.value,
          status_code |-> o.status_code, detail |-> o.detail,
          response |-> net.response, net |-> net.kind]
    ELSE [op |-> op, outcome |-> net.kind, value |-> EmptyDict, status_code |-> 0,
          detail |-> None, response |-> None, net |-> net.kind]

\* get_agent_messages classifies only a status >= 400 and parses every other
\* body itself
AgentMessagesRet(mode, net) ==
    IF net.kind = "response" /\ net.response.status_code < 400
    THEN [op |-> "get_agent_messages",
          outcome |-> IF net.response.body.kind = "unparseable"
                      THEN "JSONDecodeError" ELSE "return",
          value |-> IF net.response.body.kind = "unparseable"
                    THEN EmptyDict ELSE net.response.body,
          status_code |-> net.response.status_code, detail |-> None,
          response |-> net.response, net |-> net.kind]
    ELSE ClientRet("get_agent_messages", mode, net)

\* DailyBotClient(api_url, token, api_key) for arguments of the given sets
ConstructOn(urls, tokens, keys) ==
    \E api_url \in urls : \E token \in tokens : \E api_key \in keys :
        /\ ~NewClientRaises(api_url, token, api_key)
        /\ client' = NewClient(api_url, token, api_key)
        /\ sent' = <<>>
        /\ ret' = NoRet
        /\ UNCHANGED <<resolverVars, cmd>>

Construct ==
    ConstructOn({None} \cup UrlsOf({<<"x">>}), {None, EMPTY, ARG_TOKEN},
                {None, EMPTY, ARG_KEY})

\* request_code, verify_code: _headers(authenticated=False)
UnauthCallOn(endpoints, nets) ==
    \E endpoint \in endpoints : \E net \in nets :
        /\ client.made
        /\ sent' = <<Request(client.api_url, endpoint, headers(client, FALSE), client.timeout, None)>>
        /\ ret' = ClientRet(endpoint, client.agent_auth_mode, net)
        /\ UNCHANGED <<resolverVars, client, cmd>>

UnauthCall == UnauthCallOn(UnauthEndpoints, NetOutcomes)

\* auth_status, logout, submit_update, get_status: _headers()
SessionCallOn(endpoints, nets) ==
    \E endpoint \in endpoints : \E net \in nets :
        /\ client.made
        /\ sent' = <<Request(client.api_url, endpoint, headers(client, TRUE),
                             IF endpoint = "submit_update" THEN UPDATE_TIMEOUT
                             ELSE client.timeout, None)>>
        /\ ret' = ClientRet(endpoint, client.agent_auth_mode, net)
        /\ UNCHANGED <<resolverVars, client, cmd>>

SessionCall == SessionCallOn(SessionEndpoints, NetOutcomes)

\* the agent operations that end in _handle_response: _agent_headers(), which
\* records the mode, then the request, then the classification
AgentCallOn(endpoints, nets) ==
    \E endpoint \in endpoints : \E net \in nets :
        /\ client.made
        /\ LET ah == agent_headers(client) IN
            /\ client' = [client EXCEPT !.agent_auth_mode = ah.mode]
            /\ sent' = <<Request(client.api_url, endpoint, ah.headers, client.timeout, None)>>
            /\ ret' = ClientRet(endpoint, ah.mode, net)
        /\ UNCHANGED <<resolverVars, cmd>>

AgentCall == AgentCallOn(AgentEndpoints \ {"get_agent_messages"}, NetOutcomes)

get_agent_messages ==
    \E net \in NetOutcomes :
        /\ client.made
        /\ LET ah == agent_headers(client) IN
            /\ client' = [client EXCEPT !.agent_auth_mode = ah.mode]
            /\ sent' = <<Request(client.api_url, "get_agent_messages", ah.headers, client.timeout, None)>>
            /\ ret' = AgentMessagesRet(ah.mode, net)
        /\ UNCHANGED <<resolverVars, cmd>>

NextClient ==
    \/ Construct
    \/ UnauthCall
    \/ SessionCall
    \/ AgentCall
    \/ get_agent_messages

SpecClient == InitResolver /\ [][NextClient]_vars

---------------------------------------------------------------------------
(* main.py and commands/auth.py: the cli group, login and logout.  Every   *)
(* invocation is a process of its own: the override starts unset, the cli  *)
(* callback may set it once, and it is gone when the command ends.         *)

EMAIL == <<"u", "@", "t">>
CODE == <<"1", "2", "3", "4", "5", "6">>
TOK1 == <<"t", "1">>
TOK2 == <<"t", "2">>

LOGGED_OUT == <<"Logged out.">>
NOT_LOGGED_IN == <<"Not logged in.">>
LOGGED_IN == <<"Logged in as">>
INVALID_SELECTION == <<"Invalid selection.">>
NO_TOKEN == <<"Authentication failed: no token received.">>
TRACEBACK == <<"Traceback">>

RECURSIVE lstrip_ws(_)
lstrip_ws(s) == IF s # EMPTY /\ s[1] = " " THEN lstrip_ws(Tail(s)) ELSE s

RECURSIVE rstrip_ws(_)
rstrip_ws(s) ==
    IF s # EMPTY /\ s[Len(s)] = " " THEN rstrip_ws(SubSeq(s, 1, Len(s) - 1)) ELSE s

\* str.strip()
strip(s) == lstrip_ws(rstrip_ws(s))

\* the i-th organization of the account (its integer id in decimal)
Org(i) ==
    [is_dict |-> TRUE, id |-> IntToStr(i), name |-> <<"o", Digit(i)>>, uuid |-> <<"u", Digit(i)>>,
     text |-> EMPTY]
\* "organization" given as a plain string
OrgName == [is_dict |-> FALSE, id |-> None, name |-> EMPTY, uuid |-> EMPTY, text |-> <<"o", "n">>]

Orgs(n) == [i \in 1..n |-> Org(i)]

\* a verify-code (or request-code) response body that is a JSON object
LoginBody(osr, organizations, token, organization) ==
    [Body("map", ABSENT, ABSENT, <<"json">>) EXCEPT
        !.organization_selection_required = osr, !.organizations = organizations,
        !.token = token, !.organization = organization]

LoginBodies ==
    \* organization selection required, with or without a token of its own
    {LoginBody(JSON_TRUE, Orgs(n), t, IF t = ABSENT THEN NoOrg ELSE Org(1)) :
        n \in 0..MaxOrgs, t \in {ABSENT, TOK1}}
    \* authenticated
    \cup {LoginBody(ABSENT, <<>>, TOK1, Org(1)), LoginBody(ABSENT, <<>>, TOK2, Org(2)),
          LoginBody(ABSENT, <<>>, TOK2, NoOrg), LoginBody(JSON_FALSE, <<>>, TOK1, OrgName)}
    \* no token
    \cup {LoginBody(JSON_FALSE, <<>>, t, NoOrg) : t \in {ABSENT, EMPTY}}

\* what a call of the login flow ends in
LoginNet ==
    {[kind |-> "response", response |-> [status_code |-> 200, body |-> b]] :
        b \in LoginBodies \cup {Body("other", ABSENT, ABSENT, <<"json">>),
                                Body("unparseable", ABSENT, ABSENT, EMPTY)}}
    \cup {[kind |-> "response",
           response |-> [status_code |-> 204, body |-> Body("unparseable", ABSENT, ABSENT, EMPTY)]],
          [kind |-> "response",
           response |-> [status_code |-> 400,
                         body |-> Body("map", SERVER_DETAIL, ABSENT, <<"json">>)]],
          [kind |-> "TimeoutException", response |-> None]}

\* what the revoke call of logout ends in
LogoutNet ==
    {[kind |-> "response", response |-> [status_code |-> st, body |-> b]] :
        st \in SuccessStatuses,
        b \in {Body("map", ABSENT, ABSENT, <<"json">>), Body("unparseable", ABSENT, ABSENT, EMPTY)}}
    \cup {[kind |-> "response",
           response |-> [status_code |-> st,
                         body |-> Body("map", SERVER_DETAIL, ABSENT, <<"json">>)]] :
            st \in ErrorStatuses}
    \cup {[kind |-> k, response |-> None] : k \in {"TimeoutException", "ConnectError"}}

\* the --api-url values given on the command line (None: not given)
FlagValues == {None} \cup UrlsOf({<<"f">>})

\* the shell's environment and the files as left by hand between commands
CliEnvValues(name) ==
    CASE name = "DAILYBOT_API_URL" -> {None, <<"e", "/">>}
      [] name = "DAILYBOT_CLI_TOKEN" -> {None, ENV_TOKEN}
      [] name = "DAILYBOT_API_KEY" -> {None, ENV_KEY}

CliCredContents ==
    {MissingCreds, File("nonmap", EmptyCreds),
     File("map", [EmptyCreds EXCEPT !["token"] = CRED_TOKEN, !["api_url"] = <<"c", "/">>])}

CliConfigContents ==
    {MissingConfig, File("nonmap", EmptyConfig),
     File("map", [EmptyConfig EXCEPT !["api_key"] = STORED_KEY])}

\* cli(): click hands over --api-url, or DAILYBOT_API_URL when the flag is
\* not given and the variable is not empty; a truthy value becomes the override
cli(flag) ==
    LET api_url == IF flag # None THEN flag
                   ELSE IF Truthy(env["DAILYBOT_API_URL"]) THEN env["DAILYBOT_API_URL"]
                   ELSE None
    IN IF Truthy(api_url) THEN rstrip(api_url) ELSE None


\* how a command ended
CmdRet(op, outcome, exit_code, message, extra) ==
    [op |-> op, outcome |-> outcome, exit_code |-> exit_code, message |-> message,
     value |-> extra]

\* an exception no handler catches: traceback, exit status 1
Crash(op, exception, extra) == CmdRet(op, exception, 1, TRACEBACK, extra)

ShellSetEnvOn(names) ==
    \E name \in names : \E v \in CliEnvValues(name) :
        /\ cmd.pc = "idle"
        /\ env' = [env EXCEPT ![name] = v]
        /\ ret' = NoRet
        /\ sent' = <<>>
        /\ UNCHANGED <<api_url_override, credentials_file, config_file, client, cmd>>

ShellSetEnv == ShellSetEnvOn(EnvNames)

ShellEditCredentialsFile ==
    \E c \in CliCredContents :
        /\ cmd.pc = "idle"
        /\ credentials_file' = c
        /\ ret' = NoRet
        /\ sent' = <<>>
        /\ UNCHANGED <<env, api_url_override, config_file, client, cmd>>

ShellEditConfigFile ==
    \E c \in CliConfigContents :
        /\ cmd.pc = "idle"
        /\ config_file' = c
        /\ ret' = NoRet
        /\ sent' = <<>>
        /\ UNCHANGED <<env, api_url_override, credentials_file, client, cmd>>

\* the subcommands of `dailybot agent`
AgentCommands ==
    {"agent_update", "agent_health", "webhook_register", "webhook_unregister",
     "message_send", "message_list"}

\* `dailybot [--api-url URL] SUBCOMMAND`: the group callback, then the
\* subcommand starts (login has read --email by then; `agent` is a group
\* whose own subcommand runs next)
Cli_Invoke ==
    \E flag \in FlagValues : \E sub \in {"login", "logout", "update", "status", "agent"} :
        /\ cmd.pc = "idle"
        /\ api_url_override' = cli(flag)
        /\ cmd' = [NoCmd EXCEPT !.pc = sub, !.email = EMAIL, !.before = credentials_file]
        /\ sent' = <<>>
        /\ ret' = NoRet
        /\ UNCHANGED <<env, credentials_file, config_file, client>>

\* the command returns or exits: the process, and with it the override, ends
EndProcess(r) ==
    /\ ret' = r
    /\ cmd' = NoCmd
    /\ api_url_override' = None

\* logout where an APIError of the revoke call leaves the command as well
logout_after_revoke_api_error_fatal(revoke) ==
    IF revoke = "return"
    THEN [cleared |-> TRUE, outcome |-> "exit", exit_code |-> 0, message |-> LOGGED_OUT]
    ELSE [cleared |-> FALSE, outcome |-> revoke, exit_code |-> 1, message |-> TRACEBACK]

\* logout that reports success and leaves the record where it is
logout_after_revoke_keeps_record(revoke) ==
    IF revoke \in {"return", "APIError"}
    THEN [cleared |-> FALSE, outcome |-> "exit", exit_code |-> 0, message |-> LOGGED_OUT]
    ELSE [cleared |-> FALSE, outcome |-> revoke, exit_code |-> 1, message |-> TRACEBACK]

\* what logout does once client.logout() has ended in `revoke`: only an
\* APIError is caught; every other exception leaves the command at once
logout_after_revoke(revoke) ==
    IF revoke \in {"return", "APIError"}
    THEN [cleared |-> TRUE, outcome |-> "exit", exit_code |-> 0, message |-> LOGGED_OUT]
    ELSE [cleared |-> FALSE, outcome |-> revoke, exit_code |-> 1, message |-> TRACEBACK]

\* commands/auth.py: logout
Logout ==
    /\ cmd.pc = "logout"
    /\ LET before == [credentials |-> credentials_file, revoke |-> "none", status_code |-> 0] IN
       IF get_token = AttributeError
       THEN /\ EndProcess(Crash("logout", "AttributeError", before))
            /\ UNCHANGED <<env, credentials_file, config_file, client, sent>>
       ELSE IF ~Truthy(get_token)
       THEN /\ EndProcess(CmdRet("logout", "exit", 0, NOT_LOGGED_IN, before))
            /\ UNCHANGED <<env, credentials_file, config_file, client, sent>>
       ELSE IF NewClientRaises(None, None, None)
       THEN /\ EndProcess(Crash("logout", "AttributeError", before))
            /\ UNCHANGED <<env, credentials_file, config_file, client, sent>>
       ELSE \E net \in LogoutNet :
            LET c == NewClient(None, None, None)
                revoke == ClientRet("logout", c.agent_auth_mode, net)
                after == logout_after_revoke(revoke.outcome)
            IN /\ sent' = <<Request(c.api_url, "logout", headers(c, TRUE), c.timeout, None)>>
               /\ credentials_file' =
                    IF after.cleared THEN clear_credentials ELSE credentials_file
               /\ EndProcess(CmdRet("logout", after.outcome, after.exit_code, after.message,
                                    [before EXCEPT !.revoke = revoke.outcome,
                                                   !.status_code = revoke.status_code]))
               /\ UNCHANGED <<env, config_file, client>>

\* the code as typed at the prompt
CodeInputs == {CODE, <<" ">> \o CODE \o <<" ">>}

LoginPayload(email, code, organization_id) ==
    [email |-> email, code |-> code, organization_id |-> organization_id]

\* DailyBotClient.request_code: the request it sends
request_code(c, email) ==
    Request(c.api_url, "request_code", headers(c, FALSE), c.timeout, LoginPayload(email, ABSENT, ABSENT))

\* DailyBotClient.verify_code: the request it sends; organization_id is part
\* of the payload only when it is not None
verify_code(c, email, code, organization_id) ==
    Request(c.api_url, "verify_code", headers(c, FALSE), c.timeout,
            LoginPayload(email, code,
                         IF organization_id # None THEN organization_id ELSE ABSENT))

\* the result the flow goes on with after the second verify-code call, kept
\* from the first call instead
result_after_selection_first(first, second) == first

\* `result = client.verify_code(email, code, organization_id=...)`: the result
\* the flow goes on with after the second verify-code call
result_after_selection(first, second) == second

\* step 5 without the test of the token: whatever object came back is saved
login_finish_saves_without_token(result, email, c) ==
    IF result.kind # "map"
    THEN [saved |-> FALSE, outcome |-> "AttributeError", exit_code |-> 1,
          message |-> TRACEBACK, credentials |-> MissingCreds]
    ELSE [saved |-> TRUE, outcome |-> "exit", exit_code |-> 0, message |-> LOGGED_IN,
          credentials |-> save_credentials(result.token, email, EMPTY, EMPTY, c.api_url)]

\* _do_login, step 5: what is done with the final result
login_finish(result, email, c) ==
    IF result.kind # "map"
    THEN [saved |-> FALSE, outcome |-> "AttributeError", exit_code |-> 1,
          message |-> TRACEBACK, credentials |-> MissingCreds]
    ELSE IF ~Truthy(Get(result, "token"))
    THEN [saved |-> FALSE, outcome |-> "exit", exit_code |-> 1,
          message |-> NO_TOKEN, credentials |-> MissingCreds]
    ELSE LET org_raw == result.organization
             org_name == IF org_raw.is_dict THEN org_raw.name ELSE org_raw.text
             org_uuid == IF org_raw.is_dict THEN org_raw.uuid
                         ELSE IF result.organization_uuid = ABSENT THEN EMPTY
                         ELSE result.organization_uuid
         IN [saved |-> TRUE, outcome |-> "exit", exit_code |-> 0, message |-> LOGGED_IN,
             credentials |-> save_credentials(result.token, email, org_name, org_uuid,
                                              c.api_url)]

\* how the login command ended, with the locals it ended with
LoginRet(outcome, exit_code, message, locals) ==
    CmdRet("login", outcome, exit_code, message,
           [before |-> locals.before, first |-> locals.first,
            second |-> locals.second, result |-> locals.result,
            prompted |-> locals.prompted, choice |-> locals.choice,
            saved |-> locals.saved, stage |-> locals.pc])

\* a call of the flow failed: an APIError is printed (exit 1), anything else
\* is not caught
LoginCallFailed(r, locals) ==
    /\ EndProcess(IF r.outcome = "APIError"
                  THEN LoginRet("exit", 1, r.detail, locals)
                  ELSE LoginRet(r.outcome, 1, TRACEBACK, locals))
    /\ UNCHANGED credentials_file

\* steps 4 (no selection required) and 5, after a verify-code call returned
LoginFinish(locals) ==
    LET f == login_finish(locals.result, locals.email, locals.client) IN
    /\ credentials_file' = IF f.saved THEN f.credentials ELSE credentials_file
    /\ EndProcess(LoginRet(f.outcome, f.exit_code, f.message,
                           [locals EXCEPT !.saved = f.saved,
                                          !.pc = IF f.saved THEN "Authenticated" ELSE @]))

\* _do_login: the client, then step 1, request_code
Login_RequestCode ==
    /\ cmd.pc = "login"
    /\ IF NewClientRaises(None, None, None)
       THEN /\ EndProcess(LoginRet("AttributeError", 1, TRACEBACK, [cmd EXCEPT !.pc = "NoCode"]))
            /\ UNCHANGED <<env, credentials_file, config_file, client, sent>>
       ELSE \E net \in LoginNet :
            LET c == NewClient(None, None, None)
                r == ClientRet("request_code", c.agent_auth_mode, net)
            IN /\ sent' = Append(sent, request_code(c, cmd.email))
               /\ IF r.outcome = "return"
                  THEN /\ cmd' = [cmd EXCEPT !.pc = "CodeRequested", !.client = c]
                       /\ ret' = NoRet
                       /\ UNCHANGED <<api_url_override, credentials_file>>
                  ELSE LoginCallFailed(r, [cmd EXCEPT !.pc = "NoCode", !.client = c])
               /\ UNCHANGED <<env, config_file, client>>

\* steps 2 and 3: the code is typed, stripped and verified; then either the
\* organization prompt, or steps 4 and 5
Login_VerifyCode ==
    /\ cmd.pc = "CodeRequested"
    /\ \E typed \in CodeInputs : \E net \in LoginNet :
        LET code == strip(typed)
            r == ClientRet("verify_code", cmd.client.agent_auth_mode, net)
            locals == [cmd EXCEPT !.code = code, !.first = r.value, !.result = r.value]
        IN /\ sent' = Append(sent, verify_code(cmd.client, cmd.email, code, None))
           /\ IF r.outcome # "return"
              THEN LoginCallFailed(r, [cmd EXCEPT !.code = code])
              ELSE IF r.value.kind = "map" /\ Truthy(Get(r.value, "organization_selection_required"))
              THEN /\ cmd' = [locals EXCEPT !.pc = "OrgSelectionRequired"]
                   /\ ret' = NoRet
                   /\ UNCHANGED <<api_url_override, credentials_file>>
              ELSE LoginFinish([locals EXCEPT !.pc = "CodeVerified"])
           /\ UNCHANGED <<env, config_file, client>>

\* step 4: the organization is chosen and the code verified again with its
\* id; then step 5
Login_SelectOrg ==
    /\ cmd.pc = "OrgSelectionRequired"
    /\ \E choice \in 0..(MaxOrgs + 1) :
        LET organizations == cmd.first.organizations
            locals == [cmd EXCEPT !.prompted = TRUE, !.choice = choice]
        IN IF choice < 1 \/ choice > Len(organizations)
           THEN /\ EndProcess(LoginRet("exit", 1, INVALID_SELECTION, locals))
                /\ UNCHANGED <<env, credentials_file, config_file, client, sent>>
           ELSE \E net \in LoginNet :
                LET r == ClientRet("verify_code", cmd.client.agent_auth_mode, net) IN
                /\ sent' = Append(sent, verify_code(cmd.client, cmd.email, cmd.code,
                                                    organizations[choice].id))
                /\ IF r.outcome # "return"
                   THEN LoginCallFailed(r, locals)
                   ELSE LoginFinish([locals EXCEPT
                            !.second = r.value,
                            !.result = result_after_selection(cmd.first, r.value),
                            !.pc = "OrgSelected"])
                /\ UNCHANGED <<env, config_file, client>>

---------------------------------------------------------------------------
(* commands/update.py *)

MSG == <<"m", "s", "g">>

NOT_LOGGED_IN_UPDATE == <<"Not logged in. Run: dailybot auth login">>
EMPTY_UPDATE == <<"Empty update. Nothing sent.">>
SESSION_EXPIRED_UPDATE == <<"Session expired. Please log in again: dailybot auth login">>
NO_CHECKINS_MATCHED == <<"Update submitted but no check-ins were matched.">>

\* the MESSAGE argument (None: no argument and no flag given)
MessageArgs == {None, MSG}
\* what is typed at the prompt when no argument is given
TypedUpdates == {EMPTY, <<" ">>, MSG \o <<" ">>}

\* what the submit-update call ends in
UpdateNet ==
    {[kind |-> "response",
      response |-> [status_code |-> 200, body |-> Body("map", ABSENT, ABSENT, <<"json">>)]],
     [kind |-> "response",
      response |-> [status_code |-> 204, body |-> Body("unparseable", ABSENT, ABSENT, EMPTY)]]}
    \cup {[kind |-> "response",
           response |-> [status_code |-> st,
                         body |-> Body("map", SERVER_DETAIL, ABSENT, <<"json">>)]] :
            st \in ErrorStatuses}
    \cup {[kind |-> k, response |-> None] : k \in {"TimeoutException", "ConnectError"}}

\* _require_auth letting every caller through
require_auth_unchecked(token) == TRUE

\* _require_auth: whether the caller gets a client (`if not token: exit 1`)
require_auth(token) == Truthy(token)

\* what update does once client.submit_update() has ended in r
update_after_submit(r) ==
    IF r.outcome = "return"
    THEN [outcome |-> "exit", exit_code |-> 0, message |-> NO_CHECKINS_MATCHED]
    ELSE IF r.outcome = "APIError"
    THEN [outcome |-> "exit", exit_code |-> 1,
          message |-> IF r.status_code \in {401, 403} THEN SESSION_EXPIRED_UPDATE
                      ELSE r.detail]
    ELSE [outcome |-> r.outcome, exit_code |-> 1, message |-> TRACEBACK]

\* commands/update.py: update (with _require_auth)
Update ==
    /\ cmd.pc = "update"
    /\ LET none == [submit |-> "none", status_code |-> 0] IN
       IF get_token = AttributeError
       THEN /\ EndProcess(Crash("update", "AttributeError", none))
            /\ UNCHANGED <<env, credentials_file, config_file, client, sent>>
       ELSE IF ~require_auth(get_token)
       THEN /\ EndProcess(CmdRet("update", "exit", 1, NOT_LOGGED_IN_UPDATE, none))
            /\ UNCHANGED <<env, credentials_file, config_file, client, sent>>
       ELSE IF NewClientRaises(None, None, None)
       THEN /\ EndProcess(Crash("update", "AttributeError", none))
            /\ UNCHANGED <<env, credentials_file, config_file, client, sent>>
       ELSE \E arg \in MessageArgs : \E typed \in TypedUpdates : \E net \in UpdateNet :
            LET c == NewClient(None, None, None)
                message == IF arg = None THEN strip(typed) ELSE arg
                r == ClientRet("submit_update", c.agent_auth_mode, net)
                after == update_after_submit(r)
            IN IF ~Truthy(message)
               THEN /\ EndProcess(CmdRet("update", "exit", 1, EMPTY_UPDATE, none))
                    /\ UNCHANGED <<env, credentials_file, config_file, client, sent>>
               ELSE /\ sent' = <<Request(c.api_url, "submit_update", headers(c, TRUE),
                                         UPDATE_TIMEOUT, message)>>
                    /\ EndProcess(CmdRet("update", after.outcome, after.exit_code,
                                         after.message,
                                         [submit |-> r.outcome,
                                          status_code |-> r.status_code]))
                    /\ UNCHANGED <<env, credentials_file, config_file, client>>

---------------------------------------------------------------------------
(* commands/status.py *)

NOT_LOGGED_IN_STATUS == <<"Not logged in. Run: dailybot login">>
SESSION_EXPIRED_STATUS == <<"Session expired. Please log in again: dailybot login">>
PENDING_CHECKINS == <<"pending check-ins">>

\* what the get-status call ends in
StatusNet == UpdateNet

\* what status does once client.get_status() has ended in r
status_after_call(r) ==
    IF r.outcome = "return"
    THEN [outcome |-> "exit", exit_code |-> 0, message |-> PENDING_CHECKINS]
    ELSE IF r.outcome = "APIError"
    THEN [outcome |-> "exit", exit_code |-> 1,
          message |-> IF r.status_code \in {401, 403} THEN SESSION_EXPIRED_STATUS
                      ELSE r.detail]
    ELSE [outcome |-> r.outcome, exit_code |-> 1, message |-> TRACEBACK]

\* commands/status.py: status
Status ==
    /\ cmd.pc = "status"
    /\ LET none == [call |-> "none", status_code |-> 0] IN
       IF get_token = AttributeError
       THEN /\ EndProcess(Crash("status", "AttributeError", none))
            /\ UNCHANGED <<env, credentials_file, config_file, client, sent>>
       ELSE IF ~Truthy(get_token)
       THEN /\ EndProcess(CmdRet("status", "exit", 1, NOT_LOGGED_IN_STATUS, none))
            /\ UNCHANGED <<env, credentials_file, config_file, client, sent>>
       ELSE IF NewClientRaises(None, None, None)
       THEN /\ EndProcess(Crash("status", "AttributeError", none))
            /\ UNCHANGED <<env, credentials_file, config_file, client, sent>>
       ELSE \E net \in StatusNet :
            LET c == NewClient(None, None, None)
                r == ClientRet("get_status", c.agent_auth_mode, net)
                after == status_after_call(r)
            IN /\ sent' = <<Request(c.api_url, "get_status", headers(c, TRUE), c.timeout, None)>>
               /\ EndProcess(CmdRet("status", after.outcome, after.exit_code, after.message,
                                    [call |-> r.outcome, status_code |-> r.status_code]))
               /\ UNCHANGED <<env, credentials_file, config_file, client>>

---------------------------------------------------------------------------
(* commands/agent.py *)

API_KEY_REQUIRED ==
    <<"DAILYBOT_API_KEY environment variable is required for agent commands.">>
SPECIFY_ONE == <<"Specify exactly one of --ok, --fail, or --status.">>
INVALID_JSON == <<"Invalid JSON in --json-data.">>
AGENT_DONE == <<"agent command output">>

\* what an agent-scoped call ends in
AgentNet ==
    {[kind |-> "response",
      response |-> [status_code |-> 200, body |-> Body("map", ABSENT, ABSENT, <<"json">>)]],
     [kind |-> "response",
      response |-> [status_code |-> 204, body |-> Body("unparseable", ABSENT, ABSENT, EMPTY)]],
     [kind |-> "response",
      response |-> [status_code |-> 401,
                    body |-> Body("map", SERVER_DETAIL, ABSENT, <<"json">>)]],
     [kind |-> "response",
      response |-> [status_code |-> 500, body |-> Body("unparseable", ABSENT, ABSENT, EMPTY)]],
     [kind |-> "TimeoutException", response |-> None]}

\* the client operation an agent command calls (health: --status queries)
AgentOperation(sub, query_status) ==
    CASE sub = "agent_update" -> "submit_agent_report"
      [] sub = "agent_health" ->
            IF query_status THEN "get_agent_health" ELSE "submit_agent_health"
      [] sub = "webhook_register" -> "register_agent_webhook"
      [] sub = "webhook_unregister" -> "unregister_agent_webhook"
      [] sub = "message_send" -> "send_agent_message"
      [] sub = "message_list" -> "get_agent_messages"

\* what an agent command does once its client call has ended in r
agent_after_call(r) ==
    IF r.outcome = "return"
    THEN [outcome |-> "exit", exit_code |-> 0, message |-> AGENT_DONE]
    ELSE IF r.outcome = "APIError"
    THEN [outcome |-> "exit", exit_code |-> 1, message |-> r.detail]
    ELSE [outcome |-> r.outcome, exit_code |-> 1, message |-> TRACEBACK]

\* the --json-data values: not given, empty, text that is not JSON, JSON
BAD_JSON == <<"{", "x">>
GOOD_JSON == <<"{", "}">>
JsonArgs == {None, EMPTY, BAD_JSON, GOOD_JSON}

\* the subcommands that take --json-data
JsonCommands == {"agent_update", "message_send"}

\* json.loads(json_data) returns (it raises JSONDecodeError for the empty
\* string as for any other text that is not JSON)
json_loads_returns(json_data) == json_data = GOOD_JSON

\* no validation of --json-data
json_never_rejected(json_data) == FALSE

\* `if json_data:` then json.loads in a try: whether the command exits with
\* "Invalid JSON in --json-data."
json_rejected(json_data) == Truthy(json_data) /\ ~json_loads_returns(json_data)

\* an agent command: its argument checks, the API-key requirement, the
\* client, the agent-scoped call and the exit
AgentRun(sub) ==
    /\ cmd.pc = "agent"
    /\ \E flags_ok \in BOOLEAN : \E query_status \in BOOLEAN :
       \E json_arg \in JsonArgs : \E net \in AgentNet :
       LET json_data == IF sub \in JsonCommands THEN json_arg ELSE None
           none == [args_ok |-> TRUE, json_data |-> json_data, constructed |-> FALSE,
                    call |-> "none", status_code |-> 0]
           quiet == UNCHANGED <<env, credentials_file, config_file, client, sent>>
       IN
       IF sub = "agent_health" /\ ~flags_ok
       THEN /\ EndProcess(CmdRet(sub, "exit", 1, SPECIFY_ONE, [none EXCEPT !.args_ok = FALSE]))
            /\ quiet
       ELSE IF get_api_key = AttributeError
       THEN EndProcess(Crash(sub, "AttributeError", none)) /\ quiet
       ELSE IF ~Truthy(get_api_key)
       THEN EndProcess(CmdRet(sub, "exit", 1, API_KEY_REQUIRED, none)) /\ quiet
       ELSE IF sub \in JsonCommands /\ json_rejected(json_data)
       THEN /\ EndProcess(CmdRet(sub, "exit", 1, INVALID_JSON, [none EXCEPT !.args_ok = FALSE]))
            /\ quiet
       ELSE IF NewClientRaises(None, None, None)
       THEN EndProcess(Crash(sub, "AttributeError", none)) /\ quiet
       ELSE LET c == NewClient(None, None, None)
                ah == agent_headers(c)
                endpoint == AgentOperation(sub, query_status)
                r == IF endpoint = "get_agent_messages"
                     THEN AgentMessagesRet(ah.mode, net)
                     ELSE ClientRet(endpoint, ah.mode, net)
                after == agent_after_call(r)
            IN /\ sent' = <<Request(c.api_url, endpoint, ah.headers, c.timeout, None)>>
               /\ EndProcess(CmdRet(sub, after.outcome, after.exit_code, after.message,
                                    [none EXCEPT !.constructed = TRUE,
                                                 !.call = r.outcome,
                                                 !.status_code = r.status_code]))
               /\ UNCHANGED <<env, credentials_file, config_file, client>>

Agent_Update == AgentRun("agent_update")
Agent_Health == AgentRun("agent_health")
Webhook_Register == AgentRun("webhook_register")
Webhook_Unregister == AgentRun("webhook_unregister")
Message_Send == AgentRun("message_send")
Message_List == AgentRun("message_list")

InitCli == InitResolver

Next ==
    \/ ShellSetEnv
    \/ ShellEditCredentialsFile
    \/ ShellEditConfigFile
    \/ Cli_Invoke
    \/ Logout
    \/ Login_RequestCode
    \/ Login_VerifyCode
    \/ Login_SelectOrg
    \/ Update
    \/ Status
    \/ Agent_Update
    \/ Agent_Health
    \/ Webhook_Register
    \/ Webhook_Unregister
    \/ Message_Send
    \/ Message_List

Spec == InitCli /\ [][Next]_vars

---------------------------------------------------------------------------
(* The commands' claims, under Spec *)

\* the logout command ran with a token that resolved, and sent its revoke call
LogoutRevoked == ret.op = "logout" /\ ret.value.revoke # "none"

\* C8: when logout's revoke call raises an APIError, of any status, the
\* persisted credentials are deleted all the same and the command reports
\* "Logged out." with exit status 0.
C8_LogoutClearsOnAPIError ==
    (LogoutRevoked /\ ret.value.revoke = "APIError") =>
        /\ credentials_file.kind = "missing"
        /\ ret.outcome = "exit"
        /\ ret.exit_code = 0
        /\ ret.message = LOGGED_OUT

\* C8's case: credentials were stored, the revoke call answered 500, and the
\* credentials are gone
C8_Witness ==
    /\ LogoutRevoked
    /\ ret.value.revoke = "APIError"
    /\ ret.value.status_code = 500
    /\ ret.value.credentials.kind = "map"
    /\ credentials_file.kind = "missing"

\* C9: when logout's revoke call fails in the transport (timeout, no
\* connection), the persisted credentials are deleted all the same.
C9_LogoutClearsOnTransportFailure ==
    (LogoutRevoked /\ ret.value.revoke \in {"TimeoutException", "ConnectError"}) =>
        credentials_file.kind = "missing"

\* the login flow ended after the organization prompt was answered with a
\* listed entry
OrgChosen ==
    /\ ret.op = "login"
    /\ ret.value.prompted
    /\ ret.value.choice \in 1..Len(ret.value.first.organizations)

TokenResolves == get_token # AttributeError /\ Truthy(get_token)
ApiKeyResolves == get_api_key # AttributeError /\ Truthy(get_api_key)

\* C21: update and status started with no resolvable session token, and an
\* agent command started with neither an API key nor a session token
\* resolvable, end at once with a non-zero exit status, no request sent and
\* the persisted credentials and settings untouched.
C21_RejectedBeforeAnyCall ==
    [][((cmd.pc \in {"update", "status"} /\ ~TokenResolves)
        \/ (cmd.pc = "agent" /\ ~ApiKeyResolves /\ ~TokenResolves))
       => /\ ret'.op \in {"update", "status"} \cup AgentCommands
          /\ ret'.exit_code # 0
          /\ sent' = <<>>
          /\ credentials_file' = credentials_file
          /\ config_file' = config_file]_vars

\* C21's case: update was run with nothing to resolve a token from and was
\* turned away without a request
C21_Witness ==
    /\ ret.op = "update"
    /\ ret.message = NOT_LOGGED_IN_UPDATE
    /\ ret.exit_code = 1
    /\ ~TokenResolves
    /\ sent = <<>>

\* C22 as stated: whenever the --json-data value of `agent update` or `agent
\* message send` is not valid JSON, the command exits non-zero with no client
\* constructed and no request sent.
C22_InvalidJsonRejected ==
    (ret.op \in JsonCommands /\ ret.value.json_data # None
        /\ ~json_loads_returns(ret.value.json_data))
    => /\ ret.exit_code # 0
       /\ ~ret.value.constructed
       /\ sent = <<>>

\* C22 amended: the same for a non-empty --json-data value that is not valid
\* JSON; the empty value is taken as no value and is not validated.
C22_NonEmptyInvalidJsonRejected ==
    (ret.op \in JsonCommands /\ Truthy(ret.value.json_data)
        /\ ~json_loads_returns(ret.value.json_data))
    => /\ ret.exit_code # 0
       /\ ~ret.value.constructed
       /\ sent = <<>>

\* C22's case: an API key resolves, the value is not JSON, and `agent message
\* send` was turned away for it
C22_Witness ==
    /\ ret.op = "message_send"
    /\ ret.value.json_data = BAD_JSON
    /\ ApiKeyResolves
    /\ ret.message = INVALID_JSON
    /\ sent = <<>>

\* C16: when the submit-update call exceeds its timeout, the update command
\* exits with a non-zero status after reporting that the request timed out:
\* it is handled as a failure kind of its own, not as an API error, not as an
\* expired session and not as an uncaught exception.
C16_UpdateReportsTimeout ==
    (ret.op = "update" /\ ret.value.submit = "TimeoutException") =>
        /\ ret.outcome = "exit"
        /\ ret.exit_code # 0
        /\ ret.message \notin {TRACEBACK, SESSION_EXPIRED_UPDATE, SERVER_DETAIL}

\* C20: an agent command run with valid arguments, a resolvable session token
\* and no resolvable API key sends its agent-scoped request with the bearer
\* Authorization header.
C20_AgentCommandsWorkWithSession ==
    (/\ ret.op \in AgentCommands
     /\ ret.value.args_ok
     /\ get_api_key = None
     /\ get_token # AttributeError
     /\ Truthy(get_token))
    => /\ Len(sent) = 1
       /\ sent[1].headers["Authorization"] = BEARER \o get_token
       /\ sent[1].headers["X-API-KEY"] = ABSENT

---------------------------------------------------------------------------
(* The client's claims, under SpecClient *)

AgentRequestSent == client.made /\ Len(sent) = 1 /\ sent[1].endpoint \in AgentEndpoints

\* C1: an agent-scoped request carries X-API-KEY, no Authorization and
\* records api_key when the client holds a non-empty API key (token or not);
\* else carries only the bearer Authorization and records bearer when it holds
\* a non-empty token; else carries neither and records no mode.  Never both.
C1_AgentHeaderPriority ==
    AgentRequestSent =>
        LET h == sent[1].headers IN
        /\ IF Truthy(client.api_key)
           THEN /\ h["X-API-KEY"] = client.api_key
                /\ h["Authorization"] = ABSENT
                /\ client.agent_auth_mode = API_KEY_MODE
           ELSE IF Truthy(client.token)
           THEN /\ h["Authorization"] = BEARER \o client.token
                /\ h["X-API-KEY"] = ABSENT
                /\ client.agent_auth_mode = BEARER_MODE
           ELSE /\ h["Authorization"] = ABSENT
                /\ h["X-API-KEY"] = ABSENT
                /\ client.agent_auth_mode = None
        /\ ~(h["Authorization"] # ABSENT /\ h["X-API-KEY"] # ABSENT)

\* C1's case: a client holding both credentials has sent an agent request
C1_Witness ==
    /\ AgentRequestSent
    /\ client.api_key = ARG_KEY
    /\ client.token = ARG_TOKEN
    /\ sent[1].headers["X-API-KEY"] = ARG_KEY

\* C2: a 401 or 403 classified while the recorded mode is bearer raises an
\* APIError whose detail is the re-login instruction, whatever the body.
C2_BearerReloginDetail ==
    (/\ ret.outcome = "APIError"
     /\ ret.status_code \in {401, 403}
     /\ client.agent_auth_mode = BEARER_MODE)
    => ret.detail = SESSION_EXPIRED

\* C2's case: the server sent its own detail with a 403 and it was discarded
C2_Witness ==
    /\ ret.outcome = "APIError"
    /\ ret.status_code = 403
    /\ client.agent_auth_mode = BEARER_MODE
    /\ ret.response.body.detail = SERVER_DETAIL
    /\ ret.detail = SESSION_EXPIRED

\* C3: outside (401 or 403, mode bearer) the APIError's detail is the detail
\* derived from the server's response: its detail field, else its error field,
\* else the stringified body; for an unparseable body its text, else "HTTP <code>".
C3_ServerDetailPassedThrough ==
    (/\ ret.outcome = "APIError"
     /\ ~(ret.status_code \in {401, 403} /\ client.agent_auth_mode = BEARER_MODE))
    => LET b == ret.response.body IN
       ret.detail =
          IF b.kind = "map" /\ b.detail # ABSENT THEN b.detail
          ELSE IF b.kind = "map" /\ b.error # ABSENT THEN b.error
          ELSE IF b.kind = "map" THEN py_str(b)
          ELSE IF b.text # EMPTY THEN b.text
          ELSE HTTP \o IntToStr(ret.status_code)

\* C3's case: a 401 under api_key mode keeps the server's detail
C3_Witness ==
    /\ ret.outcome = "APIError"
    /\ ret.status_code = 401
    /\ client.agent_auth_mode = API_KEY_MODE
    /\ ret.op \in AgentEndpoints
    /\ ret.detail = SERVER_DETAIL

\* every operation of the client
ClientEndpoints == UnauthEndpoints \cup SessionEndpoints \cup AgentEndpoints

\* the last client operation got a response from the server
Answered == ret.op \in ClientEndpoints /\ ret.net = "response"

\* the re-login override applies to the last classified response
BearerOverride ==
    ret.status_code \in {401, 403} /\ client.agent_auth_mode = BEARER_MODE

\* C27: the error detail of an unauthenticated or session-authenticated
\* operation never depends on an agent-scoped call made earlier on the same
\* instance: it is the detail of a client that made no agent-scoped call
C27_ModeNeverOutlivesAgentCall ==
    (Answered /\ ret.op \in UnauthEndpoints \cup SessionEndpoints
              /\ ret.outcome = "APIError") =>
        ret.detail = handle_response(None, ret.response).detail

\* C29: request-code and verify-code requests never carry an Authorization
\* or X-API-KEY header, whatever the client holds; a session-authenticated
\* request carries the bearer header exactly when the token is non-empty and
\* never carries the API key header
C29_CredentialsOnlyWhereMeant ==
    /\ ret.op \in UnauthEndpoints =>
          /\ sent[1].headers["Authorization"] = ABSENT
          /\ sent[1].headers["X-API-KEY"] = ABSENT
    /\ ret.op \in SessionEndpoints =>
          /\ sent[1].headers["X-API-KEY"] = ABSENT
          /\ sent[1].headers["Authorization"] =
                IF client.token \notin {None, EMPTY}
                THEN BEARER \o client.token ELSE ABSENT

\* verify_code called on a client that holds a token and an API key
C29_Witness ==
    /\ ret.op = "verify_code"
    /\ client.token = ARG_TOKEN
    /\ client.api_key = ARG_KEY
    /\ sent[1].headers["Authorization"] = ABSENT
    /\ sent[1].headers["X-API-KEY"] = ABSENT

\* C11: every client operation answered with status 204 returns the empty
\* result and does not parse the response body.
C11_NoContentYieldsEmpty ==
    (Answered /\ ret.response.status_code = 204) =>
        /\ ret.outcome = "return"
        /\ ret.value = EmptyDict

\* C12: for a status >= 400 whose body parses as JSON, the detail before the
\* bearer override is the body's detail field when it has one, otherwise its
\* error field when it has one, otherwise the whole body as a string (str of
\* the parsed object; the response text for JSON that is no object, which has
\* no fields); detail wins over error when both exist.
C12_DetailThenErrorThenBody ==
    (/\ Answered
     /\ ret.response.status_code >= 400
     /\ ret.response.body.kind \in {"map", "other"}
     /\ ~BearerOverride)
    => LET b == ret.response.body IN
       /\ ret.outcome = "APIError"
       /\ b.kind = "map" /\ b.detail # ABSENT => ret.detail = b.detail
       /\ b.kind = "map" /\ b.detail = ABSENT /\ b.error # ABSENT => ret.detail = b.error
       /\ b.kind = "map" /\ b.detail = ABSENT /\ b.error = ABSENT => ret.detail = py_str(b)
       /\ b.kind = "other" => ret.detail = b.text

\* C12's case: a body with both fields, and the detail field won
C12_Witness ==
    /\ Answered
    /\ ret.response.status_code = 400
    /\ ret.response.body.detail = SERVER_DETAIL
    /\ ret.response.body.error = SERVER_ERROR
    /\ ret.detail = SERVER_DETAIL

\* C13 as stated: for a status >= 400 whose body cannot be parsed the
\* APIError's detail is the response text when non-empty and "HTTP <code>"
\* when empty, in every case.
C13_UnparseableTextThenGeneric ==
    (/\ Answered
     /\ ret.response.status_code >= 400
     /\ ret.response.body.kind = "unparseable")
    => /\ ret.outcome = "APIError"
       /\ ret.detail = IF ret.response.body.text # EMPTY
                       THEN ret.response.body.text
                       ELSE HTTP \o IntToStr(ret.response.status_code)

\* C13 amended: for a status >= 400 whose body cannot be parsed the operation
\* always ends in an APIError, never in a parsing error; its detail is the
\* response text when non-empty and "HTTP <code>" when empty, except for a 401
\* or 403 classified in bearer mode, whose detail is the re-login instruction.
C13_UnparseableTextThenGenericUnlessBearer ==
    (/\ Answered
     /\ ret.response.status_code >= 400
     /\ ret.response.body.kind = "unparseable")
    => /\ ret.outcome = "APIError"
       /\ ret.detail = IF BearerOverride THEN SESSION_EXPIRED
                       ELSE IF ret.response.body.text # EMPTY
                       THEN ret.response.body.text
                       ELSE HTTP \o IntToStr(ret.response.status_code)

\* C13's case: a 500 with an empty body, reported as "HTTP 500"
C13_Witness ==
    /\ Answered
    /\ ret.response.status_code = 500
    /\ ret.response.body.kind = "unparseable"
    /\ ret.response.body.text = EMPTY
    /\ ret.detail = <<"H", "T", "T", "P", " ", "5", "0", "0">>

\* C14: an operation answered with a status >= 400 ends in an APIError
\* carrying that status and returns nothing; one answered with a status < 400
\* never ends in an APIError.
C14_APIErrorIffErrorStatus ==
    Answered =>
        IF ret.response.status_code >= 400
        THEN ret.outcome = "APIError" /\ ret.status_code = ret.response.status_code
        ELSE ret.outcome # "APIError"

\* C14's case: the message list, which classifies only error statuses, got a 400
C14_Witness ==
    /\ Answered
    /\ ret.op = "get_agent_messages"
    /\ ret.response.status_code = 400
    /\ ret.outcome = "APIError"
    /\ ret.status_code = 400

\* C15: an operation whose request times out or cannot connect has sent one
\* request and ends with the transport's exception: no APIError, no status.
C15_TransportFailureDistinct ==
    (ret.op \in ClientEndpoints /\ ret.net \in {"TimeoutException", "ConnectError"}) =>
        /\ Len(sent) = 1
        /\ sent[1].endpoint = ret.op
        /\ ret.outcome = ret.net
        /\ ret.outcome # "APIError"
        /\ ret.status_code \notin SuccessStatuses \cup ErrorStatuses

\* C15's case: submit_update timed out
C15_Witness ==
    /\ ret.op = "submit_update"
    /\ ret.net = "TimeoutException"
    /\ Len(sent) = 1
    /\ sent[1].timeout = UPDATE_TIMEOUT
    /\ ret.outcome = "TimeoutException"

---------------------------------------------------------------------------
(* The resolver's claims, under SpecResolver *)

\* the persisted values, as the data model of the files sees them
PersistedToken ==
    IF credentials_file.kind = "map" /\ Truthy(Get(credentials_file.data, "token"))
    THEN credentials_file.data["token"] ELSE None

PersistedApiUrl ==
    IF PersistedToken # None /\ Truthy(Get(credentials_file.data, "api_url"))
    THEN credentials_file.data["api_url"] ELSE None

PersistedApiKey ==
    IF config_file.kind = "map" /\ Truthy(Get(config_file.data, "api_key"))
    THEN config_file.data["api_key"] ELSE None

FirstOf(a, b) == IF Truthy(a) THEN a ELSE b

\* C4: get_token and get_api_key return the environment value when it is
\* non-empty, whatever is persisted; otherwise the persisted value when there
\* is one; otherwise absent (None).
C4_EnvThenPersistedThenAbsent ==
    /\ ret.op = "get_token" =>
         ret.value = FirstOf(env["DAILYBOT_CLI_TOKEN"], PersistedToken)
    /\ ret.op = "get_api_key" =>
         ret.value = FirstOf(env["DAILYBOT_API_KEY"], PersistedApiKey)

\* C5: every get_api_key call answers from the environment and the settings
\* as they are at that call: env-key once DAILYBOT_API_KEY holds it, else
\* stored-key while the settings hold it, else what the settings file yields
\* (nothing stored: None; a settings file that is no JSON object: the call
\* raises).  No earlier answer survives a change of either.
C5_ApiKeyRecomputedEachCall ==
    ret.op = "get_api_key" =>
        IF Truthy(env["DAILYBOT_API_KEY"]) THEN ret.value = env["DAILYBOT_API_KEY"]
        ELSE IF config_file.kind = "nonmap" THEN ret.outcome = "raise"
        ELSE ret.value = PersistedApiKey

\* C5's case: the settings hold stored-key, the environment now holds
\* env-key, and the call answered env-key
C5_Witness ==
    /\ ret.op = "get_api_key"
    /\ PersistedApiKey = STORED_KEY
    /\ env["DAILYBOT_API_KEY"] = ENV_KEY
    /\ ret.value = ENV_KEY

\* C6: get_api_url returns the first available of the runtime override, the
\* environment variable, the persisted credentials' api_url and the default,
\* without trailing slashes, and the result never ends with a slash.
C6_ApiUrlFirstAvailable ==
    ret.op = "get_api_url" =>
        /\ ret.outcome = "return"
        /\ ret.value =
             rstrip(FirstOf(api_url_override,
                    FirstOf(env["DAILYBOT_API_URL"],
                    FirstOf(PersistedApiUrl, DEFAULT_API_URL))))
        /\ ~EndsWithSlash(ret.value)

\* C7 as stated: once set_api_url_override has been called, get_api_url
\* returns the most recent call's value with its trailing slashes stripped,
\* for every value.
C7_OverrideAlwaysWins ==
    (ret.op = "get_api_url" /\ api_url_override # None) =>
        ret.value = api_url_override

\* C7 amended: api_url_override always holds the most recent
\* set_api_url_override value with its trailing slashes stripped, and whenever
\* that is non-empty get_api_url returns it, whatever the environment and the
\* persisted credentials hold.
C7_NonEmptyOverrideWins ==
    /\ [](ret.op = "get_api_url" /\ Truthy(api_url_override) =>
            ret.value = api_url_override /\ ~EndsWithSlash(ret.value))
    /\ [][api_url_override' # api_url_override =>
            ret'.op = "set_api_url_override" /\ api_url_override' = rstrip(ret'.value)]_vars

\* C7's case: an override, an environment URL and a persisted api_url all
\* present, and the override returned
C7_Witness ==
    /\ ret.op = "get_api_url"
    /\ Truthy(api_url_override)
    /\ Truthy(env["DAILYBOT_API_URL"])
    /\ PersistedApiUrl # None
    /\ ret.value = api_url_override

\* the settings a save starts from: a missing or malformed file counts as empty
SettingsOf(file) == IF file.kind = "map" THEN file.data ELSE EmptyConfig

\* C17: each save_config(data) leaves the stored settings equal to the
\* previous settings changed only at the keys data names: a key given a
\* non-empty value holds it, a key given an empty or absent (None) value is
\* removed, every other key keeps its previous value.
C17_SaveConfigMerges ==
    ret.op = "save_config" =>
        /\ ret.outcome = "return"
        /\ \A k \in ConfigKeys :
              SettingsOf(config_file)[k] =
                 IF ret.value[k] = ABSENT THEN SettingsOf(ret.before)[k]
                 ELSE IF Truthy(ret.value[k]) THEN ret.value[k]
                 ELSE ABSENT

\* C18: load_credentials returns a record only if the persisted record has a
\* non-empty token; a missing file, a record without a non-empty token and
\* any other shape yield None.  So get_token and get_api_url never use a
\* persisted value of a record whose token is empty or missing.
C18_RecordOnlyWithToken ==
    /\ ret.op = "load_credentials" =>
          IF credentials_file.kind = "map" /\ Truthy(Get(credentials_file.data, "token"))
          THEN ret.value = Dict(credentials_file.data)
          ELSE ret.value = NoDict
    /\ (ret.op = "get_token" /\ ~Truthy(env["DAILYBOT_CLI_TOKEN"]) /\ PersistedToken = None)
          => ret.value = None
    /\ (/\ ret.op = "get_api_url" /\ ~Truthy(api_url_override)
         /\ ~Truthy(env["DAILYBOT_API_URL"]) /\ PersistedToken = None)
          => ret.value = DEFAULT_API_URL

\* C19: get_api_url, get_token, get_api_key and get_agent_auth return for
\* every environment and every content of the two files; none of them raises.
C19_ResolutionNeverFails ==
    ret.op \in {"get_api_url", "get_token", "get_api_key", "get_agent_auth"} =>
        ret.outcome = "return"


\* C25: after every completed save_credentials and every completed
\* save_config the file written has mode 0600, whatever mode it had before
\* and whether or not it existed
C25_SavedFilesOwnerOnly ==
    /\ ret.op = "save_credentials" => credentials_file.mode = OWNER_RW
    /\ (ret.op = "save_config" /\ ret.outcome = "return")
           => config_file.mode = OWNER_RW

\* save_config completed on a file that was world-writable
C25_Witness ==
    /\ ret.op = "save_config"
    /\ ret.outcome = "return"
    /\ ret.before.mode = WORLD_RW
    /\ config_file.mode = OWNER_RW


\* C23: get_agent_auth returns api_key whenever an API key resolves from the
\* environment or the settings, bearer when none does and a session token
\* resolves from the environment or the credentials, and None otherwise; a
\* client constructed without arguments in the same state records the same
\* mode when it builds its agent headers.
C23_AgentAuthMatchesHeaders ==
    ret.op = "get_agent_auth" =>
        /\ ret.value =
              IF Truthy(FirstOf(env["DAILYBOT_API_KEY"], PersistedApiKey)) THEN API_KEY_MODE
              ELSE IF Truthy(FirstOf(env["DAILYBOT_CLI_TOKEN"], PersistedToken))
              THEN BEARER_MODE
              ELSE None
        /\ ~NewClientRaises(None, None, None) =>
              agent_headers(NewClient(None, None, None)).mode = ret.value

---------------------------------------------------------------------------
(* The commands' claims about the persisted state, under Spec *)

\* the login command ended with credentials saved
LoggedIn == ret.op = "login" /\ ret.value.saved

\* C24: after a successful login the persisted credentials are exactly the
\* new token, the email, the organization's name and uuid and the base URL
\* the login's requests went to, so with no environment values get_token and
\* get_api_url return that token and that URL; after logout no credentials
\* record exists.
C24_LoginOverwritesLogoutDeletes ==
    /\ LoggedIn =>
         LET result == ret.value.result
             org == result.organization
         IN /\ credentials_file.kind = "map"
            /\ credentials_file.data =
                 [k \in CredKeys |->
                    CASE k = "token" -> result.token
                      [] k = "email" -> sent[1].payload.email
                      [] k = "organization" -> IF org.is_dict THEN org.name ELSE org.text
                      [] k = "organization_uuid" -> IF org.is_dict THEN org.uuid ELSE EMPTY
                      [] k = "api_url" -> sent[1].base_url]
            /\ (\A n \in EnvNames : env[n] = None) =>
                 /\ get_token = result.token
                 /\ get_api_url = sent[1].base_url
    /\ ret.op = "logout" => PersistedToken = None

\* the positions of a login that has not ended
LoginStages == {"login", "CodeRequested", "OrgSelectionRequired"}

\* C26: the login flow goes NoCode -> CodeRequested -> (CodeVerified |
\* OrgSelectionRequired) -> [OrgSelected ->] Authenticated, one call per step;
\* it writes the credentials only in the step that ends it at Authenticated,
\* with a non-empty token; a flow that ends anywhere else exits non-zero with
\* the credentials file as it was when the login started
C26_LoginPersistsOnlyWhenAuthenticated ==
    [][cmd.pc \in LoginStages =>
        /\ <<cmd.pc, cmd'.pc>> \in
              {<<"login", "CodeRequested">>,
               <<"CodeRequested", "OrgSelectionRequired">>,
               <<"login", "idle">>, <<"CodeRequested", "idle">>,
               <<"OrgSelectionRequired", "idle">>}
        /\ Len(sent') <= Len(sent) + 1
        /\ cmd'.pc # "idle" =>
              /\ credentials_file' = credentials_file
              /\ credentials_file' = cmd'.before
        /\ cmd'.pc = "idle" =>
              /\ ret'.op = "login"
              /\ IF ret'.value.saved
                 THEN /\ ret'.value.stage = "Authenticated"
                      /\ ret'.exit_code = 0
                      /\ cmd.pc # "login"
                      /\ ret'.value.prompted <=> cmd.pc = "OrgSelectionRequired"
                      /\ Len(sent') = IF ret'.value.prompted THEN 3 ELSE 2
                      /\ Truthy(Get(ret'.value.result, "token"))
                      /\ credentials_file'.data["token"] = ret'.value.result.token
                 ELSE /\ ret'.value.stage # "Authenticated"
                      /\ ret'.exit_code # 0
                      /\ credentials_file' = credentials_file
                      /\ credentials_file' = ret'.value.before
    ]_vars

\* the second verify-code call failed after an organization was chosen, and
\* the record of an earlier login is still the stored one
C26_Witness ==
    /\ ret.op = "login"
    /\ ~ret.value.saved
    /\ ret.value.prompted
    /\ Len(sent) = 3
    /\ ret.exit_code = 1
    /\ credentials_file.kind = "map"
    /\ credentials_file = ret.value.before

---------------------------------------------------------------------------
(* One client instance kept while the process environment, the override    *)
(* and both files change under it                                          *)

\* the answers the instance gets: a success and a rejected credential
InstanceNet ==
    {[kind |-> "response",
      response |-> [status_code |-> st,
                    body |-> Body("map", SERVER_DETAIL, ABSENT, <<"json">>)]] :
        st \in {200, 401}}

\* the token and the key of the environment change
Instance_SetEnv == ShellSetEnvOn({"DAILYBOT_CLI_TOKEN", "DAILYBOT_API_KEY"})

\* DailyBotClient(), as every command constructs it
Instance_Construct == ConstructOn({None}, {None}, {None})

Instance_UnauthCall == UnauthCallOn({"request_code"}, InstanceNet)
Instance_SessionCall == SessionCallOn({"get_status", "submit_update"}, InstanceNet)
Instance_AgentCall == AgentCallOn({"submit_agent_report"}, InstanceNet)

NextInstance ==
    \/ Instance_SetEnv
    \/ ShellEditConfigFile
    \/ set_api_url_override
    \/ Call_save_credentials
    \/ Call_clear_credentials
    \/ Instance_Construct
    \/ Instance_UnauthCall
    \/ Instance_SessionCall
    \/ Instance_AgentCall

SpecInstance == InitResolver /\ [][NextInstance]_vars

\* the resolved configuration of an instance
ResolvedConfiguration(c) ==
    [api_url |-> c.api_url, token |-> c.token, api_key |-> c.api_key,
     timeout |-> c.timeout]

\* C28: a client's resolved configuration is frozen at construction: no
\* client operation and no change of the environment, the override or the
\* files changes its base URL, token, API key or timeout, and every request
\* goes to that base URL with credentials taken from that token and key
C28_ConfigurationFrozen ==
    [][/\ (resolverVars' # resolverVars \/ ret'.op \in ClientEndpoints) =>
              ResolvedConfiguration(client') = ResolvedConfiguration(client)
       /\ ret'.op \in ClientEndpoints =>
              /\ sent'[1].base_url = client.api_url
              /\ sent'[1].timeout \in {client.timeout, UPDATE_TIMEOUT}
              /\ sent'[1].headers["Authorization"] \in {ABSENT, BEARER \o client.token}
              /\ sent'[1].headers["X-API-KEY"] \in {ABSENT, client.api_key}
    ]_vars

\* a session call made after the token and the URL the resolver gives have
\* changed under the instance
C28_Witness ==
    /\ ret.op \in SessionEndpoints
    /\ Truthy(client.token)
    /\ get_token # client.token
    /\ get_api_url # client.api_url
    /\ get_api_key # client.api_key
    /\ sent[1].base_url = client.api_url
    /\ sent[1].headers["Authorization"] = BEARER \o client.token

---------------------------------------------------------------------------
(* Logout and the token of the environment, under Spec *)

\* the token get_token found when the logout command started: the
\* environment's, else the stored record's
LogoutTokenResolved ==
    \/ Truthy(env["DAILYBOT_CLI_TOKEN"])
    \/ /\ ret.value.credentials.kind = "map"
       /\ Truthy(Get(ret.value.credentials.data, "token"))

\* C30: after a logout that runs to its end with a resolvable token no
\* credentials record exists, and get_token gives None exactly when
\* DAILYBOT_CLI_TOKEN is unset or empty (the environment's token survives);
\* a logout with no resolvable token sends no request and deletes nothing
C30_LogoutActsOnPersistedStateOnly ==
    /\ (ret.op = "logout" /\ ret.outcome = "exit" /\ LogoutTokenResolved) =>
          /\ credentials_file.kind = "missing"
          /\ get_token = None <=> env["DAILYBOT_CLI_TOKEN"] \in {None, EMPTY}
          /\ get_token \in {None, env["DAILYBOT_CLI_TOKEN"]}
    /\ (ret.op = "logout" /\ ~LogoutTokenResolved) =>
          /\ sent = <<>>
          /\ credentials_file = ret.value.credentials

\* logged out with a stored record and a token in the environment: the
\* record is gone, the environment's token still resolves
C30_Witness ==
    /\ ret.op = "logout"
    /\ ret.outcome = "exit"
    /\ ret.message = LOGGED_OUT
    /\ ret.value.credentials.kind = "map"
    /\ credentials_file.kind = "missing"
    /\ env["DAILYBOT_CLI_TOKEN"] = ENV_TOKEN
    /\ get_token = ENV_TOKEN
====
